---- MODULE Spec2Model ----
(***************************************************************************)
(* Layout cache of the line editor (src/src/cache.rs): the association     *)
(* between byte offsets of the prompt / edited text and screen positions.  *)
(*                                                                         *)
(* A string is a sequence of grapheme clusters.  Each cluster has a byte   *)
(* length and a rendered width (unicode_segmentation / unicode_width).     *)
(* A call that panics (assert!, unimplemented!, unwrap on None) unwinds:   *)
(* the fields keep whatever the call had written before the panic, and     *)
(* `status` records how the last call ended.                               *)
(***************************************************************************)
EXTENDS Integers, Sequences, FiniteSets, TLC

\* ------------------------------------------------------------------ bounds
MaxColumns == 3      \* columns ranges over 0..MaxColumns
MaxPrompt == 2       \* graphemes in a prompt string
MaxLine == 1         \* graphemes in the edited line
MaxEntries == 2      \* entries of a drawn cache (specification SpecQuery)
MaxIdx == 3          \* largest byte offset of a drawn entry / of a cursor

\* --------------------------------------------------------------- graphemes
\* ">" and " " are one-byte, one-column ASCII; "W" is a three-byte,
\* two-column East Asian wide character; "z" is a two-byte, zero-width
\* combining mark.
Grapheme == {">", " ", "W", "z"}

len(g) == CASE g = "W" -> 3 [] g = "z" -> 2 [] OTHER -> 1

width(g) == CASE g = "W" -> 2 [] g = "z" -> 0 [] OTHER -> 1

Strings(n) == UNION {[1..k -> Grapheme] : k \in 0..n}

\* the graphemes the edit descriptors are drawn from
LineGrapheme == {">", "W", "z"}

LineStrings(n) == UNION {[1..k -> LineGrapheme] : k \in 0..n}

RECURSIVE str_len(_)
str_len(s) == IF s = <<>> THEN 0 ELSE len(Head(s)) + str_len(Tail(s))

\* byte offset of the k-th grapheme of s (1-based k; k = Len(s)+1 is the end)
offset(s, k) == str_len(SubSeq(s, 1, k - 1))

\* s.grapheme_indices(true): the (byte offset, grapheme) pairs in order
grapheme_indices(s) == [k \in 1..Len(s) |-> [i |-> offset(s, k), s |-> s[k]]]

\* ---------------------------------------------------------------- Position
Position_default == [col |-> 0, row |-> 0]

\* ------------------------------------------------------------------- Entry
Entry_new(idx, w) == [idx |-> idx, width |-> w, pos |-> Position_default]

\* ------------------------------------------------------------------- Shift
ZERO == [width |-> 0, right |-> TRUE, height |-> 0, down |-> TRUE]

\* the same function without the direction of a decrease
delta_rightward(o, n) ==
    IF n > o THEN <<n - o, TRUE>>
    ELSE IF n < o THEN <<o - n, TRUE>>
    ELSE <<0, TRUE>>

\* fn delta(o, n) -> (usize, bool)
delta(o, n) ==
    IF n > o THEN <<n - o, TRUE>>
    ELSE IF n < o THEN <<o - n, FALSE>>
    ELSE <<0, TRUE>>

Shift_delta(old, new) ==
    IF old = new THEN ZERO
    ELSE [width |-> delta(old.col, new.col)[1], right |-> delta(old.col, new.col)[2],
          height |-> delta(old.row, new.row)[1], down |-> delta(old.row, new.row)[2]]

Shift_is_empty(s) == s.width = 0 /\ s.height = 0

\* ----------------------------------------------------------- call outcomes
\* A call returns a position (st = "ok") or panics (st = "assert" for a
\* failed assert!, "unimplemented" for unimplemented!()).
Ok(p) == [st |-> "ok", pos |-> p]

Panic(kind) == [st |-> kind, pos |-> Position_default]

\* ------------------------------------------------------------- LayoutCache
VARIABLES
    prompt,            \* Vec<Entry>: current prompt
    text,              \* Vec<Entry>: edited text
    columns,           \* number of columns in terminal screen
    tab_stop,          \* set at construction, never read
    dirty,             \* `true` when `text` is not up to date
    debug_assertions,  \* whether the build checks debug_assert!
    status,            \* how the last call ended: "ok" or the kind of panic
    ret,               \* what the last call returned (when status = "ok")
    last,              \* the last call and its arguments
    line               \* the text the edit descriptors issued so far describe

vars == <<prompt, text, columns, tab_stop, dirty, debug_assertions, status, ret, last, line>>

Self == [prompt |-> prompt, text |-> text, columns |-> columns,
         tab_stop |-> tab_stop, dirty |-> dirty]

LayoutCache_new(ts) ==
    [prompt |-> <<>>, text |-> <<>>, columns |-> 0, tab_stop |-> ts, dirty |-> FALSE]

\* shift_entry asserting <= instead of <
shift_entry_le(self, e) ==
    IF e.width = 0 THEN Ok(e.pos)
    ELSE IF ~(e.pos.col + e.width <= self.columns) THEN Panic("assert")
    ELSE Ok([col |-> e.pos.col + e.width, row |-> e.pos.row])

\* assert!(e.pos.col + e.width < self.columns)
shift_entry(self, e) ==
    IF e.width = 0 THEN Ok(e.pos)
    ELSE IF ~(e.pos.col + e.width < self.columns) THEN Panic("assert")
    ELSE Ok([col |-> e.pos.col + e.width, row |-> e.pos.row])

\* the debug_assert!(p.col < self.columns) is implied by shift_entry's assert!
prompt_size(self) ==
    IF self.prompt # <<>>
    THEN shift_entry(self, self.prompt[Len(self.prompt)])
    ELSE Ok(Position_default)

\* slice::binary_search_by_key on 0-based indices left..right-1:
\* [found |-> TRUE, i] for Ok(i), [found |-> FALSE, i] for Err(i)
RECURSIVE binary_search(_, _, _, _)
binary_search(t, key, left, right) ==
    IF ~(left < right) THEN [found |-> FALSE, i |-> left]
    ELSE LET mid == left + ((right - left) \div 2)
             k == t[mid + 1].idx
         IN IF k = key THEN [found |-> TRUE, i |-> mid]
            ELSE IF k < key THEN binary_search(t, key, mid + 1, right)
            ELSE binary_search(t, key, left, mid)

binary_search_by_key(t, key) == binary_search(t, key, 0, Len(t))

\* cursor_position without the `|| cursor == 0` of its first test
cursor_position_no_zero(self, cursor) ==
    IF self.text = <<>> THEN prompt_size(self)
    ELSE LET r == binary_search_by_key(self.text, cursor)
         IN IF r.found THEN Ok(self.text[r.i + 1].pos)
            ELSE IF r.i = 0 THEN Ok(Position_default)
            ELSE IF r.i = Len(self.text)
                 THEN shift_entry(self, self.text[Len(self.text)])
            ELSE Ok(self.text[r.i + 1].pos)

\* cursor_position answering with the entry before the insertion point
cursor_position_before(self, cursor) ==
    IF self.text = <<>> \/ cursor = 0 THEN prompt_size(self)
    ELSE LET r == binary_search_by_key(self.text, cursor)
         IN IF r.found THEN Ok(self.text[r.i + 1].pos)
            ELSE IF r.i = 0 THEN Ok(Position_default)
            ELSE IF r.i = Len(self.text)
                 THEN shift_entry(self, self.text[Len(self.text)])
            ELSE Ok(self.text[r.i].pos)

cursor_position(self, cursor) ==
    IF self.text = <<>> \/ cursor = 0 THEN prompt_size(self)
    ELSE LET r == binary_search_by_key(self.text, cursor)
         IN IF r.found THEN Ok(self.text[r.i + 1].pos)
            ELSE IF r.i = 0 THEN Ok(Position_default)
            ELSE IF r.i = Len(self.text)
                 THEN shift_entry(self, self.text[Len(self.text)])
            ELSE Ok(self.text[r.i + 1].pos)

\* fn update_entry(e, shift, columns) -> Shift: debug_assert!, then unimplemented!()
update_entry(dbg, e, shift, cols) ==
    IF dbg /\ ~(shift.width < cols)
    THEN [st |-> "debug_assert", e |-> e, shift |-> shift]
    ELSE [st |-> "unimplemented", e |-> e, shift |-> shift]

\* for e in entries { shift = update_entry(e, shift, columns) }
RECURSIVE update_entries(_, _, _, _)
update_entries(dbg, es, shift, cols) ==
    IF es = <<>> THEN [st |-> "ok", es |-> <<>>, shift |-> shift]
    ELSE LET r == update_entry(dbg, Head(es), shift, cols)
         IN IF r.st # "ok" THEN [st |-> r.st, es |-> es, shift |-> shift]
            ELSE LET rest == update_entries(dbg, Tail(es), r.shift, cols)
                 IN [st |-> rest.st, es |-> <<r.e>> \o rest.es, shift |-> rest.shift]

\* window_resized without the early return on unchanged columns
window_resized_no_guard(dbg, self, cols) ==
    LET n == Len(self.prompt)
        r == update_entries(dbg, self.prompt \o self.text, ZERO, cols)
    IN IF r.st # "ok" THEN [st |-> r.st, self |-> self, flag |-> FALSE]
       ELSE [st |-> "ok",
             self |-> [self EXCEPT !.prompt = SubSeq(r.es, 1, n),
                                   !.text = SubSeq(r.es, n + 1, Len(r.es)),
                                   !.columns = cols],
             flag |-> ~Shift_is_empty(r.shift)]

window_resized(dbg, self, cols) ==
    IF self.columns = cols THEN [st |-> "ok", self |-> self, flag |-> FALSE]
    ELSE LET n == Len(self.prompt)
             r == update_entries(dbg, self.prompt \o self.text, ZERO, cols)
         IN IF r.st # "ok" THEN [st |-> r.st, self |-> self, flag |-> FALSE]
            ELSE [st |-> "ok",
                  self |-> [self EXCEPT !.prompt = SubSeq(r.es, 1, n),
                                        !.text = SubSeq(r.es, n + 1, Len(r.es)),
                                        !.columns = cols],
                  flag |-> ~Shift_is_empty(r.shift)]

\* prompt_entries without the `if width == 0 { continue; }`
prompt_entries_all(p) ==
    LET gi == grapheme_indices(p)
    IN [k \in 1..Len(gi) |-> [idx |-> gi[k].i, width |-> width(gi[k].s), pos |-> Position_default]]

\* the entries pushed for `p`: one per grapheme of non-zero width, at the default position
prompt_entries(p) ==
    LET gi == grapheme_indices(p)
        keep == SelectSeq(gi, LAMBDA x : width(x.s) # 0)
    IN [k \in 1..Len(keep) |-> Entry_new(keep[k].i, width(keep[k].s))]

prompt_updated(self, p) ==
    LET old_size == prompt_size(self)
        built == [self EXCEPT !.prompt = IF self.columns > 0 THEN prompt_entries(p) ELSE <<>>]
        new_size == prompt_size(built)
    IN IF old_size.st # "ok" THEN [st |-> old_size.st, self |-> self]
       ELSE IF new_size.st # "ok" THEN [st |-> new_size.st, self |-> built]
       ELSE LET shift == Shift_delta(old_size.pos, new_size.pos)
            IN IF ~Shift_is_empty(shift)
               THEN \* "shift self.text entries position": the block is empty
                    [st |-> "unimplemented", self |-> built]
               ELSE [st |-> "unimplemented", self |-> built]

\* DeleteListener / ChangeListener for LayoutCache: the impl blocks are
\* commented out and every body is unimplemented!(); no edit changes the cache.
start_killing(self) == [st |-> "unimplemented", self |-> self]

delete(self, idx, string, dir) == [st |-> "unimplemented", self |-> self]

stop_killing(self) == [st |-> "unimplemented", self |-> self]

insert_char(self, idx, c) == [st |-> "unimplemented", self |-> self]

insert_str(self, idx, string) == [st |-> "unimplemented", self |-> self]

replace(self, idx, old, new) == [st |-> "unimplemented", self |-> self]

\* ----------------------------------------------------------------- actions
\* A panic unwinds the call and leaves the cache as the call had made it;
\* its owner still holds the value and can call it again.
TabStops == {8}

NoRet == [pos |-> Position_default, flag |-> FALSE]

Call(op, n, s, s2) == [op |-> op, n |-> n, s |-> s, s2 |-> s2]

Return(r, value, call) ==
    /\ prompt' = r.self.prompt
    /\ text' = r.self.text
    /\ columns' = r.self.columns
    /\ tab_stop' = r.self.tab_stop
    /\ dirty' = r.self.dirty
    /\ status' = r.st
    /\ ret' = IF r.st = "ok" THEN value ELSE NoRet
    /\ last' = call
    /\ UNCHANGED debug_assertions

Init ==
    /\ \E ts \in TabStops :
         /\ prompt = LayoutCache_new(ts).prompt
         /\ text = LayoutCache_new(ts).text
         /\ columns = LayoutCache_new(ts).columns
         /\ tab_stop = LayoutCache_new(ts).tab_stop
         /\ dirty = LayoutCache_new(ts).dirty
    /\ debug_assertions \in BOOLEAN
    /\ status = "ok"
    /\ ret = NoRet
    /\ last = Call("new", 0, <<>>, <<>>)
    /\ line = <<>>

CursorPosition ==
    \E cursor \in 0..MaxIdx :
        LET r == cursor_position(Self, cursor)
        IN /\ Return([st |-> r.st, self |-> Self], [pos |-> r.pos, flag |-> FALSE],
                     Call("cursor_position", cursor, <<>>, <<>>))
           /\ UNCHANGED line

WindowResized ==
    \E cols \in 0..MaxColumns, rows \in 0..1 :
        LET r == window_resized(debug_assertions, Self, cols)
        IN /\ Return(r, [pos |-> Position_default, flag |-> r.flag],
                     Call("window_resized", cols, <<>>, <<>>))
           /\ UNCHANGED line

PromptUpdated ==
    \E p \in Strings(MaxPrompt) :
        /\ Return(prompt_updated(Self, p), NoRet, Call("prompt_updated", 0, p, <<>>))
        /\ UNCHANGED line

\* the string s inserted before the k-th grapheme of l
Inserted(l, k, s) == SubSeq(l, 1, k - 1) \o s \o SubSeq(l, k, Len(l))

\* the n graphemes from the k-th removed from l
Removed(l, k, n) == SubSeq(l, 1, k - 1) \o SubSeq(l, k + n, Len(l))

InsertStr ==
    \E k \in 1..(Len(line) + 1), s \in LineStrings(MaxLine) \ {<<>>} :
        /\ Len(line) + Len(s) <= MaxLine
        /\ Return(insert_str(Self, offset(line, k), s), NoRet,
                  Call("insert_str", offset(line, k), <<>>, <<>>))
        /\ line' = Inserted(line, k, s)

InsertChar ==
    \E k \in 1..(Len(line) + 1), c \in LineGrapheme :
        /\ Len(line) + 1 <= MaxLine
        /\ Return(insert_char(Self, offset(line, k), c), NoRet,
                  Call("insert_char", offset(line, k), <<>>, <<>>))
        /\ line' = Inserted(line, k, <<c>>)

StartKilling ==
    /\ Return(start_killing(Self), NoRet, Call("start_killing", 0, <<>>, <<>>))
    /\ UNCHANGED line

Delete ==
    \E k \in 1..Len(line), n \in 1..MaxLine, dir \in {"Forward", "Backward"} :
        /\ k + n - 1 <= Len(line)
        /\ Return(delete(Self, offset(line, k), SubSeq(line, k, k + n - 1), dir), NoRet,
                  Call("delete", offset(line, k), <<>>, <<>>))
        /\ line' = Removed(line, k, n)

StopKilling ==
    /\ Return(stop_killing(Self), NoRet, Call("stop_killing", 0, <<>>, <<>>))
    /\ UNCHANGED line

Replace ==
    \E k \in 1..Len(line), n \in 1..MaxLine, new \in LineStrings(MaxLine) :
        /\ k + n - 1 <= Len(line)
        /\ Len(line) - n + Len(new) <= MaxLine
        /\ Return(replace(Self, offset(line, k), SubSeq(line, k, k + n - 1), new), NoRet,
                  Call("replace", offset(line, k), <<>>, <<>>))
        /\ line' = Inserted(Removed(line, k, n), k, new)

Next ==
    \/ CursorPosition
    \/ WindowResized
    \/ PromptUpdated
    \/ InsertStr
    \/ InsertChar
    \/ StartKilling
    \/ Delete
    \/ StopKilling
    \/ Replace

Spec == Init /\ [][Next]_vars

\* ---------------------------------------------------- queries on any cache
\* cursor_position is a function of the cache and the cursor.  SpecQuery
\* draws the cache from the values the fields are documented to hold:
\* entries sorted by idx, width > 0, and (current.pos.col + current.width)
\* = next.pos.col when there is no line break between two entries.
IdxSeqs(n) == {s \in [1..n -> 0..MaxIdx] : \A i \in 1..(n - 1) : s[i] < s[i + 1]}

EntrySeq(n, idxs, ws, br, first) ==
    LET pos[i \in 1..n] ==
            IF i = 1 THEN first
            ELSE IF br[i] THEN [col |-> 0, row |-> pos[i - 1].row + 1]
            ELSE [col |-> pos[i - 1].col + ws[i - 1], row |-> pos[i - 1].row]
    IN [i \in 1..n |-> [idx |-> idxs[i], width |-> ws[i], pos |-> pos[i]]]

FirstPos == {[col |-> c, row |-> 0] : c \in 0..1}

DrawnTexts ==
    UNION {{EntrySeq(n, idxs, ws, br, first) :
                idxs \in IdxSeqs(n), ws \in [1..n -> 1..2],
                br \in {b \in [1..n -> BOOLEAN] : n > 0 => ~b[1]},
                first \in IF n = 0 THEN {Position_default} ELSE FirstPos}
           : n \in 0..MaxEntries}

DrawnPrompts == {prompt_entries(p) : p \in Strings(MaxPrompt)}

InitQuery ==
    /\ prompt \in DrawnPrompts
    /\ text \in DrawnTexts
    /\ columns \in 0..MaxColumns
    /\ (prompt # <<>> \/ text # <<>>) => columns > 0   \* nothing is pushed at columns = 0
    /\ tab_stop \in TabStops
    /\ dirty = FALSE
    /\ debug_assertions \in BOOLEAN
    /\ status = "ok"
    /\ ret = NoRet
    /\ last = Call("new", 0, <<>>, <<>>)
    /\ line = <<>>

NextQuery == CursorPosition

SpecQuery == InitQuery /\ [][NextQuery]_vars

\* ------------------------------------------------------- reference layout
\* Laying a string out from scratch: a grapheme that does not fit in what
\* is left of the row starts the next row; the pen then moves right by the
\* grapheme's width.
Place(pos, w, cols) ==
    IF w > 0 /\ pos.col + w > cols THEN [col |-> 0, row |-> pos.row + 1] ELSE pos

RECURSIVE LayoutEnd(_, _, _)
LayoutEnd(s, pos, cols) ==
    IF s = <<>> THEN pos
    ELSE LET at == Place(pos, width(Head(s)), cols)
         IN LayoutEnd(Tail(s), [col |-> at.col + width(Head(s)), row |-> at.row], cols)

\* a pen standing at the right edge is at the start of the next row
Wrapped(pos, cols) == IF pos.col >= cols THEN [col |-> 0, row |-> pos.row + 1] ELSE pos

\* the positions a from-scratch layout gives for the pen after s
After(s, pos, cols) == {Ok(LayoutEnd(s, pos, cols)), Ok(Wrapped(LayoutEnd(s, pos, cols), cols))}

\* the entries es laid out afresh, in order, from pos
RECURSIVE Relayout(_, _, _)
Relayout(es, pos, cols) ==
    IF es = <<>> THEN <<>>
    ELSE LET at == Place(pos, Head(es).width, cols)
         IN <<[Head(es) EXCEPT !.pos = at]>>
            \o Relayout(Tail(es), [col |-> at.col + Head(es).width, row |-> at.row], cols)

SortedByIdx(es) == \A i \in 1..(Len(es) - 1) : es[i].idx < es[i + 1].idx

NoZeroWidth(es) == \A i \in 1..Len(es) : es[i].width # 0

NotAfter(p, q) == p.row < q.row \/ (p.row = q.row /\ p.col <= q.col)

ScreenOrdered(es) ==
    \A i, j \in 1..Len(es) : es[i].idx < es[j].idx => NotAfter(es[i].pos, es[j].pos)

\* ------------------------------------------------------------------ claims

\* C1 (oracle equivalence): after any sequence of Insert/Delete/Replace, for
\* every byte offset of the resulting text, cursor_position computed from the
\* cache equals the position found by laying the text out from scratch.
C1_OracleEquivalence ==
    (columns > 0 /\ prompt_size(Self).st = "ok") =>
        \A k \in 1..(Len(line) + 1) :
            cursor_position(Self, offset(line, k))
                \in After(SubSeq(line, 1, k - 1), prompt_size(Self).pos, columns)

\* C2: after every mutation the prompt and the text entries are sorted
\* strictly ascending by idx, hold no entry of width 0, and are in
\* non-decreasing screen order wherever they are in ascending idx order.
C2_StructuralInvariants ==
    \A es \in {prompt, text} : SortedByIdx(es) /\ NoZeroWidth(es) /\ ScreenOrdered(es)

\* C2 witness: prompt_updated has stored two entries, the second one after a
\* grapheme of several bytes.
C2_Witness ==
    /\ last.op = "prompt_updated"
    /\ prompt = prompt_entries(last.s)
    /\ Len(prompt) = 2
    /\ prompt[2].idx > 1

\* C3: every stored entry e satisfies e.pos.col + e.width <= columns - 1,
\* and the assertion of shift_entry never fails.
C3_EntryInsideColumns ==
    /\ \A i \in 1..Len(prompt \o text) :
           (prompt \o text)[i].pos.col + (prompt \o text)[i].width <= columns - 1
    /\ status # "assert"

\* C4 (Insert/Delete inverse): Insert{idx, s} immediately followed by
\* Delete{idx, s} completes and leaves the text entries as they were.
C4_InsertDeleteInverse ==
    \A k \in 1..(Len(line) + 1), s \in LineStrings(MaxLine) \ {<<>>} :
        LET r1 == insert_str(Self, offset(line, k), s)
            r2 == delete(r1.self, offset(line, k), s, "Forward")
        IN r1.st = "ok" /\ r2.st = "ok" /\ r2.self.text = text

\* C5 (prompt-shift equivalence): after prompt_updated the text entries are
\* those of a from-scratch layout of the text starting at the new prompt_size().
C5_PromptShiftEquivalence ==
    last.op = "prompt_updated" =>
        /\ status = "ok"
        /\ text = Relayout(text, prompt_size(Self).pos, columns)

\* C6: window_resized(c, r) with c equal to the cache's columns returns false
\* and leaves columns and every prompt and text entry unchanged.
C6_ResizeSameColumns ==
    [][(last'.op = "window_resized" /\ last'.n = columns) =>
           (status' = "ok" /\ ret'.flag = FALSE /\ UNCHANGED <<prompt, text, columns>>)]_vars

\* C6 witness: window_resized was called with the columns the cache already
\* had while the cache held entries, and returned false.
C6_Witness ==
    /\ last.op = "window_resized"
    /\ last.n = columns
    /\ prompt # <<>>
    /\ status = "ok"
    /\ ret.flag = FALSE

\* C7: window_resized(c, r) with c different from the current columns sets
\* columns to c, lays every entry out afresh (prompt first, then text) and
\* returns true exactly when some entry's position changed.
C7_ResizeRelayout ==
    [][(last'.op = "window_resized" /\ last'.n # columns) =>
           /\ status' = "ok"
           /\ columns' = last'.n
           /\ prompt' \o text' = Relayout(prompt \o text, Position_default, last'.n)
           /\ ret'.flag = (prompt' \o text' # prompt \o text)]_vars

\* C8: after prompt_updated(p) with columns > 0, prompt_size() is the position
\* following the last non-zero-width grapheme of p laid out from the origin;
\* for p = "> " it is {col: 2, row: 0}, and with empty text cursor_position(0)
\* returns the same position.
C8_PromptSize ==
    (last.op = "prompt_updated" /\ columns > 0) =>
        /\ prompt_size(Self) \in After(last.s, Position_default, columns)
        /\ (last.s = <<">", " ">> /\ columns > 2) =>
               /\ prompt_size(Self) = Ok([col |-> 2, row |-> 0])
               /\ text = <<>> => cursor_position(Self, 0) = Ok([col |-> 2, row |-> 0])

\* C9: cursor_position(cursor) returns prompt_size() whenever the text
\* sequence is empty or cursor = 0.
C9_CursorAtPromptSize ==
    (last.op = "cursor_position" /\ (text = <<>> \/ last.n = 0)) =>
        /\ status = prompt_size(Self).st
        /\ ret.pos = prompt_size(Self).pos

\* C9 witness: cursor_position(0) was answered with prompt_size() on a cache
\* whose first text entry is somewhere else.
C9_Witness ==
    /\ last.op = "cursor_position"
    /\ last.n = 0
    /\ text # <<>>
    /\ prompt # <<>>
    /\ status = "ok"
    /\ ret.pos = prompt_size(Self).pos
    /\ text[1].idx = 0
    /\ text[1].pos # ret.pos

\* the number of text entries before byte offset c (its insertion point)
InsertionPoint(c) == Cardinality({j \in 1..Len(text) : text[j].idx < c})

\* C10: for non-empty text and cursor > 0, cursor_position(cursor) is the pos
\* of the entry whose idx is cursor when there is one; otherwise, with i the
\* insertion point of cursor, the origin when i = 0, shift_entry(last entry)
\* when i = len(text), and text[i].pos when 0 < i < len(text).
C10_CursorCases ==
    (last.op = "cursor_position" /\ text # <<>> /\ last.n > 0) =>
        LET i == InsertionPoint(last.n)
            expected ==
                IF \E j \in 1..Len(text) : text[j].idx = last.n
                THEN Ok(text[CHOOSE j \in 1..Len(text) : text[j].idx = last.n].pos)
                ELSE IF i = 0 THEN Ok(Position_default)
                ELSE IF i = Len(text) THEN shift_entry(Self, text[Len(text)])
                ELSE Ok(text[i + 1].pos)
        IN status = expected.st /\ ret.pos = expected.pos

\* C10 witness: the cursor falls strictly between two entries and the answer
\* is the position of the later one.
C10_Witness ==
    /\ last.op = "cursor_position"
    /\ Len(text) >= 2
    /\ text[1].idx < last.n
    /\ last.n < text[2].idx
    /\ status = "ok"
    /\ ret.pos = text[2].pos
    /\ text[1].pos # text[2].pos

\* ------------------------------------------------------ claims on the edits
Range(es) == {es[i] : i \in 1..Len(es)}

\* the screen positions of the entries that an edit added, removed or moved
ChangedPositions(before, after) ==
    {e.pos : e \in (Range(before) \ Range(after)) \cup (Range(after) \ Range(before))}

InSpan(p, span) == NotAfter(span.start, p) /\ NotAfter(p, span.end)

\* the entries of es whose idx is below b
Below(es, b) == SelectSeq(es, LAMBDA e : e.idx < b)

\* the entries of es whose idx is at least b, with d added to their idx
MovedFrom(es, b, d) ==
    LET tail == SelectSeq(es, LAMBDA e : e.idx >= b)
    IN [i \in 1..Len(tail) |-> [tail[i] EXCEPT !.idx = tail[i].idx + d]]

IdxOf(es) == [i \in 1..Len(es) |-> es[i].idx]

\* C11: Replace(idx, old, new) completes and leaves the cache exactly as
\* Delete(idx, old) followed by Insert(idx, new) does.
C11_ReplaceIsDeleteInsert ==
    \A k \in 1..(Len(line) + 1), n \in 0..MaxLine, new \in LineStrings(MaxLine) :
        (k + n - 1 <= Len(line)) =>
            LET idx == offset(line, k)
                old == SubSeq(line, k, k + n - 1)
                r == replace(Self, idx, old, new)
                d == delete(Self, idx, old, "Forward")
                i == insert_str(d.self, idx, new)
            IN r.st = "ok" /\ d.st = "ok" /\ i.st = "ok" /\ r.self = i.self

C14_WrapAfterFullRow ==
    (/\ columns > 0
     /\ prompt = <<>>
     /\ Len(line) = columns
     /\ \A k \in 1..Len(line) : width(line[k]) = 1 /\ len(line[k]) = 1) =>
        /\ Len(text) = columns
        /\ text[columns].idx = columns - 1
        /\ text[columns].pos = [col |-> columns - 1, row |-> 0]
        /\ LET r == insert_str(Self, columns, <<">">>)
           IN /\ r.st = "ok"
              /\ Len(r.self.text) = columns + 1
              /\ r.self.text[columns + 1].pos = [col |-> 0, row |-> 1]

\* C15: Insert and Delete at byte offset idx complete, leave every text
\* entry below idx, every prompt entry and columns unchanged, and move the
\* idx of every surviving entry at or after the edited range by the byte
\* length inserted or deleted.
C15_EditFrame ==
    /\ \A k \in 1..(Len(line) + 1), s \in LineStrings(MaxLine) \ {<<>>} :
           LET idx == offset(line, k)
               r == insert_str(Self, idx, s)
           IN /\ r.st = "ok"
              /\ r.self.prompt = prompt /\ r.self.columns = columns
              /\ Below(r.self.text, idx) = Below(text, idx)
              /\ IdxOf(SelectSeq(r.self.text, LAMBDA e : e.idx >= idx + str_len(s)))
                     = IdxOf(MovedFrom(text, idx, str_len(s)))
    /\ \A k \in 1..Len(line), n \in 1..MaxLine :
           (k + n - 1 <= Len(line)) =>
               LET idx == offset(line, k)
                   s == SubSeq(line, k, k + n - 1)
                   r == delete(Self, idx, s, "Forward")
               IN /\ r.st = "ok"
                  /\ r.self.prompt = prompt /\ r.self.columns = columns
                  /\ Below(r.self.text, idx) = Below(text, idx)
                  /\ IdxOf(SelectSeq(r.self.text, LAMBDA e : e.idx >= idx))
                         = IdxOf(MovedFrom(text, idx + str_len(s), 0 - str_len(s)))

\* ------------------------------------------------- position arithmetic
\* usize is modelled as 0..UsizeMax: checked_add fails above UsizeMax as it
\* does above usize::MAX, checked_sub fails below 0.
UsizeMax == 3

Usize == 0..UsizeMax

Positions == [col : Usize, row : Usize]

Shifts == [width : Usize, right : BOOLEAN, height : Usize, down : BOOLEAN]

Value(v) == [st |-> "ok", v |-> v]

\* Option::unwrap() on None
Unwrap == [st |-> "unwrap", v |-> 0]

\* the same function with wrapping instead of checked arithmetic
shift_wrapping(u, s, plus) ==
    IF s = 0 THEN Value(u)
    ELSE IF plus THEN Value((u + s) % (UsizeMax + 1))
    ELSE Value((u - s) % (UsizeMax + 1))

\* fn shift(u, shift, plus) -> usize
shift(u, s, plus) ==
    IF s = 0 THEN Value(u)
    ELSE IF plus
         THEN (IF u + s <= UsizeMax THEN Value(u + s) ELSE Unwrap)  \* checked_add
         ELSE (IF s <= u THEN Value(u - s) ELSE Unwrap)             \* checked_sub

\* fn shift_mut(&mut self, s): col is written before row is computed, so a
\* panic on the row leaves the shifted col behind
Position_shift_mut(self, s) ==
    LET c == IF s.width # 0 THEN shift(self.col, s.width, s.right) ELSE Value(self.col)
    IN IF c.st # "ok" THEN [st |-> c.st, pos |-> self]
       ELSE LET r == IF s.height # 0 THEN shift(self.row, s.height, s.down)
                     ELSE Value(self.row)
            IN IF r.st # "ok" THEN [st |-> r.st, pos |-> [col |-> c.v, row |-> self.row]]
               ELSE [st |-> "ok", pos |-> [col |-> c.v, row |-> r.v]]

\* fn shift(&self, s) -> Position: shift_mut on a copy
Position_shift(self, s) ==
    LET new == Position_shift_mut(self, s)
    IN IF new.st = "ok" THEN Ok(new.pos) ELSE Panic(new.st)

\* the same function with the remainder and the quotient exchanged
Shift_right_swapped(w, cols) ==
    IF w = 0 THEN [st |-> "ok", shift |-> ZERO]
    ELSE IF w < cols
         THEN [st |-> "ok", shift |-> [width |-> w, right |-> TRUE, height |-> 0, down |-> TRUE]]
         ELSE IF cols = 0 THEN [st |-> "unwrap", shift |-> ZERO]
              ELSE [st |-> "ok", shift |-> [width |-> w \div cols, right |-> TRUE,
                                            height |-> w % cols, down |-> TRUE]]

\* fn right(width, columns) -> Shift; checked_rem / checked_div are None
\* when columns = 0
Shift_right(w, cols) ==
    IF w = 0 THEN [st |-> "ok", shift |-> ZERO]
    ELSE IF w < cols
         THEN [st |-> "ok", shift |-> [width |-> w, right |-> TRUE, height |-> 0, down |-> TRUE]]
         ELSE IF cols = 0 THEN [st |-> "unwrap", shift |-> ZERO]
              ELSE [st |-> "ok", shift |-> [width |-> w % cols, right |-> TRUE,
                                            height |-> w \div cols, down |-> TRUE]]

\* One application of a function of the position arithmetic to one input:
\* `last` holds the function and its arguments, `ret` what it returned,
\* `status` how it ended.  The cache is not involved.
Apply(op, args, st, value) ==
    /\ last.op = "new"
    /\ last' = [op |-> op, args |-> args]
    /\ status' = st
    /\ ret' = value
    /\ UNCHANGED <<prompt, text, columns, tab_stop, dirty, debug_assertions, line>>

DeltaAxis ==
    \E o \in Usize, n \in Usize : Apply("delta", <<o, n>>, "ok", delta(o, n))

ShiftDelta ==
    \E old \in Positions, new \in Positions :
        Apply("Shift::delta", <<old, new>>, "ok", Shift_delta(old, new))

ShiftAxis ==
    \E u \in Usize, s \in Usize, plus \in BOOLEAN :
        Apply("shift", <<u, s, plus>>, shift(u, s, plus).st, shift(u, s, plus))

PositionShift ==
    \E pos \in Positions, s \in Shifts :
        Apply("Position::shift_mut", <<pos, s>>, Position_shift_mut(pos, s).st,
              Position_shift_mut(pos, s))

ShiftRight ==
    \E w \in Usize, cols \in Usize :
        Apply("Shift::right", <<w, cols>>, Shift_right(w, cols).st, Shift_right(w, cols))

NextArith == DeltaAxis \/ ShiftDelta \/ ShiftAxis \/ PositionShift \/ ShiftRight

SpecArith == Init /\ [][NextArith]_vars

\* C16: Position::shift of old by Shift::delta(old, new) returns exactly
\* new without failing, Shift::delta(old, new) is empty exactly when
\* old = new, and per axis shift(o, m, d) = n where (m, d) = delta(o, n).
C16_DeltaRoundTrip ==
    /\ last.op = "Shift::delta" =>
           /\ Position_shift(last.args[1], ret) = Ok(last.args[2])
           /\ Shift_is_empty(ret) <=> (last.args[1] = last.args[2])
    /\ last.op = "delta" =>
           shift(last.args[1], ret[1], ret[2]) = Value(last.args[2])

\* a delta that moves left on one axis and down on the other
C16_Witness ==
    /\ last.op = "Shift::delta"
    /\ last.args[1].col > last.args[2].col
    /\ last.args[1].row < last.args[2].row
    /\ ~ret.right /\ ret.down

\* how a coordinate moved by a magnitude in a direction, as an integer
Moved(v, m, plus) == IF plus THEN v + m ELSE v - m

\* C17 as stated: shift returns value + magnitude when positive, value -
\* magnitude when not positive and magnitude <= value, and fails otherwise;
\* shift_mut never stores a wrapped-around col or row.
C17_ShiftAsStated ==
    /\ last.op = "shift" =>
           LET u == last.args[1]
               m == last.args[2]
               plus == last.args[3]
           IN /\ plus => ret = Value(u + m)
              /\ (~plus /\ m <= u) => ret = Value(u - m)
              /\ (~plus /\ m > u) => ret.st # "ok"
    /\ last.op = "Position::shift_mut" =>
           /\ ret.pos.col \in {last.args[1].col,
                               Moved(last.args[1].col, last.args[2].width, last.args[2].right)}
           /\ ret.pos.row \in {last.args[1].row,
                               Moved(last.args[1].row, last.args[2].height, last.args[2].down)}

\* C17 (amended): shift returns value + magnitude when positive and the sum
\* is representable, value - magnitude when not positive and magnitude <=
\* value, and fails (unwrap on None) both when the difference would be
\* negative and when the sum would exceed the largest usize; shift_mut
\* stores only exact sums and differences, never a wrapped-around one.
C17_ShiftChecked ==
    /\ last.op = "shift" =>
           LET u == last.args[1]
               m == last.args[2]
               plus == last.args[3]
           IN /\ (plus /\ u + m <= UsizeMax) => ret = Value(u + m)
              /\ (plus /\ u + m > UsizeMax) => ret.st = "unwrap"
              /\ (~plus /\ m <= u) => ret = Value(u - m)
              /\ (~plus /\ m > u) => ret.st = "unwrap"
    /\ last.op = "Position::shift_mut" =>
           LET pos == last.args[1]
               s == last.args[2]
           IN /\ ret.pos.col \in {pos.col, Moved(pos.col, s.width, s.right)}
              /\ ret.pos.row \in {pos.row, Moved(pos.row, s.height, s.down)}
              /\ ret.st = "ok" => ret.pos = [col |-> Moved(pos.col, s.width, s.right),
                                             row |-> Moved(pos.row, s.height, s.down)]
              /\ ret.st = "ok" <=> /\ Moved(pos.col, s.width, s.right) \in Usize
                                   /\ Moved(pos.row, s.height, s.down) \in Usize

\* a subtraction below zero that failed
C17_Witness ==
    /\ last.op = "shift"
    /\ ~last.args[3]
    /\ last.args[2] > last.args[1]
    /\ status = "unwrap"

\* C18 as stated: for every columns value, Shift::right(width, columns)
\* returns a rightward and downward shift with
\* shift.height * columns + shift.width = width and shift.width < columns.
C18_RightAsStated ==
    last.op = "Shift::right" =>
        /\ ret.st = "ok"
        /\ ret.shift.right /\ ret.shift.down
        /\ ret.shift.height * last.args[2] + ret.shift.width = last.args[1]
        /\ ret.shift.width < last.args[2]

\* C18 (amended): for columns > 0, Shift::right(width, columns) returns a
\* rightward and downward shift with shift.width = width mod columns and
\* shift.height = width div columns; at columns = 0 it returns the zero
\* shift for width = 0 and fails (unwrap on None) for width > 0.
C18_RightDecomposition ==
    last.op = "Shift::right" =>
        LET w == last.args[1]
            cols == last.args[2]
        IN /\ cols > 0 =>
                  /\ ret.st = "ok"
                  /\ ret.shift.right /\ ret.shift.down
                  /\ ret.shift.width = w % cols
                  /\ ret.shift.height = w \div cols
                  /\ ret.shift.height * cols + ret.shift.width = w
                  /\ ret.shift.width < cols
           /\ (cols = 0 /\ w = 0) => ret = [st |-> "ok", shift |-> ZERO]
           /\ (cols = 0 /\ w > 0) => ret.st = "unwrap"

\* a width that wraps and leaves a remainder
C18_Witness ==
    /\ last.op = "Shift::right"
    /\ last.args[2] > 0
    /\ last.args[1] > last.args[2]
    /\ ret.st = "ok"
    /\ ret.shift.width > 0 /\ ret.shift.height > 0

\* ----------------------------------------------------- claims on the queries
\* text holds one entry per non-zero-width grapheme of the edited line
UpToDate == IdxOf(text) = IdxOf(prompt_entries(line))

EndOfLine(c) == text # <<>> /\ c > text[Len(text)].idx

\* what shift_entry does with a stored entry: the position right after it
\* when that is inside the row, a failed assertion otherwise
ShiftEntryCases ==
    \A e \in Range(prompt) \cup Range(text) :
        /\ (e.width > 0 /\ e.pos.col + e.width < columns) =>
               shift_entry(Self, e) = Ok([col |-> e.pos.col + e.width, row |-> e.pos.row])
        /\ (e.width > 0 /\ e.pos.col + e.width >= columns) =>
               shift_entry(Self, e).st = "assert"

\* C19 as stated: shift_entry returns {col + width, row} or fails its
\* assertion, and every position returned by prompt_size() or by the
\* end-of-line case of cursor_position has col < columns.
C19_AsStated ==
    /\ ShiftEntryCases
    /\ prompt_size(Self).st = "ok" => prompt_size(Self).pos.col < columns
    /\ (last.op = "cursor_position" /\ status = "ok" /\ EndOfLine(last.n)) =>
           ret.pos.col < columns

\* C19 (amended): shift_entry returns {col + width, row} or fails its
\* assertion; every position returned by prompt_size() for a non-empty
\* prompt or by the end-of-line case of cursor_position has col < columns;
\* for an empty prompt prompt_size() is the origin whatever columns is.
C19_ShiftEntryBound ==
    /\ ShiftEntryCases
    /\ (prompt # <<>> /\ prompt_size(Self).st = "ok") => prompt_size(Self).pos.col < columns
    /\ prompt = <<>> => prompt_size(Self) = Ok(Position_default)
    /\ (last.op = "cursor_position" /\ status = "ok" /\ EndOfLine(last.n)) =>
           ret.pos.col < columns

\* the end-of-line case was answered, on a cache that also holds an entry
\* reaching the right edge
C19_Witness ==
    /\ last.op = "cursor_position"
    /\ status = "ok"
    /\ EndOfLine(last.n)
    /\ ret.pos = [col |-> text[Len(text)].pos.col + text[Len(text)].width,
                  row |-> text[Len(text)].pos.row]
    /\ \E e \in Range(text) : e.pos.col + e.width = columns

====
